---- MODULE Spec2Model ----
(***************************************************************************)
(* State-machine model of the TPoS extension's HTTP handlers               *)
(* (src/views_api.py): terminal CRUD, sale invoices, the ATM (LNURL-pay)   *)
(* flow, the LNURL-withdraw flow and the payment status poll.              *)
(*                                                                         *)
(* Python values are encoded as follows.                                   *)
(*   str   : a sequence of one-character strings, so that str.replace,     *)
(*           lower and startswith are computed character by character;     *)
(*   dict  : a function whose DOMAIN is the set of keys present, so that   *)
(*           d["k"] raises KeyError exactly when "k" \notin DOMAIN d;      *)
(*   None  : the empty sequence <<>> for an optional object, AtmNone for   *)
(*           the optional integer column Tpos.atm.                         *)
(* A handler is cut into one action per await point.                       *)
(***************************************************************************)
EXTENDS Integers, Sequences, FiniteSets, TLC

VARIABLES store, req

vars == <<store, req>>

----------------------------------------------------------------------------
(* Bounds of the model.                                                    *)

\* largest amount (in sat) a request asks for
MaxAmount == 3
\* largest number of chunks an lnurl input string is built from
MaxParts == 2

(* Program constants.                                                      *)
MsatPerSat == 1000
AtmNone == -1
OK == 200
FORBIDDEN == 403
NOT_FOUND == 404
INTERNAL_SERVER_ERROR == 500

\* request slots; the sequential specification serves requests in slot 1
Slots == {1, 2}
SeqSlots == {1}

Wallets == {"W1", "W2"}
\* ids create_tpos can hand out, and ids a request can address
StoreIds == {"T1"}
ReqIds == {"T1", "T2", ""}
AtmValues == {0, 1, AtmNone}
Amounts == 1 .. MaxAmount
TipAmounts == {-1, 0, 1}
Sendables == {MsatPerSat, MaxAmount * MsatPerSat}

----------------------------------------------------------------------------
(* Python str operations on character sequences.                           *)

\* str.replace(old, new): every non-overlapping occurrence, left to right
RECURSIVE Replace(_, _, _)
Replace(s, old, new) ==
    IF Len(s) < Len(old) THEN s
    ELSE IF SubSeq(s, 1, Len(old)) = old
         THEN new \o Replace(SubSeq(s, Len(old) + 1, Len(s)), old, new)
         ELSE <<Head(s)>> \o Replace(Tail(s), old, new)

LowerChar(c) ==
    CASE c = "L" -> "l" [] c = "I" -> "i" [] c = "G" -> "g" [] c = "H" -> "h"
      [] c = "T" -> "t" [] c = "N" -> "n" [] c = "U" -> "u" [] c = "R" -> "r"
      [] c = "O" -> "o" [] c = "K" -> "k" [] c = "B" -> "b" [] c = "A" -> "a"
      [] c = "D" -> "d"
      [] OTHER -> c

Lower(s) == [i \in 1 .. Len(s) |-> LowerChar(s[i])]

StartsWith(s, p) == Len(s) >= Len(p) /\ SubSeq(s, 1, Len(p)) = p

S_lnurlw == <<"l", "n", "u", "r", "l", "w", ":", "/", "/">>
S_lightning_ss == <<"l", "i", "g", "h", "t", "n", "i", "n", "g", ":", "/", "/">>
S_LIGHTNING_ss == <<"L", "I", "G", "H", "T", "N", "I", "N", "G", ":", "/", "/">>
S_lightning == <<"l", "i", "g", "h", "t", "n", "i", "n", "g", ":">>
S_LIGHTNING == <<"L", "I", "G", "H", "T", "N", "I", "N", "G", ":">>
S_lnurlp == <<"l", "n", "u", "r", "l", "p", ":", "/", "/">>
S_https == <<"h", "t", "t", "p", "s", ":", "/", "/">>
S_lnurl == <<"l", "n", "u", "r", "l">>
S_host == <<"x", ".", "i", "o">>
S_callback == <<"h", "t", "t", "p", "s", ":", "/", "/", "x", "/", "c", "b">>
S_bech == <<"l", "n", "u", "r", "l", "1", "o", "k">>
S_BECH == <<"L", "N", "U", "R", "L", "1", "O", "K">>
S_badbech == <<"l", "n", "u", "r", "l", "1", "b", "a", "d">>
S_light == <<"l", "i", "g", "h", "t">>
S_ning == <<"n", "i", "n", "g", ":">>

\* the pieces request strings are assembled from
Chunks ==
    {S_lnurlw, S_lightning_ss, S_LIGHTNING_ss, S_lightning, S_LIGHTNING,
     S_https, S_host, S_bech, S_BECH, S_badbech, S_light, S_ning}

RECURSIVE Concats(_)
Concats(n) ==
    IF n = 0 THEN {<<>>}
    ELSE LET shorter == Concats(n - 1)
         IN  shorter \cup {c \o t : c \in Chunks, t \in shorter}

LnurlInputs == Concats(MaxParts)
PayLinks == {S_lnurlp \o S_host, S_https \o S_host}

----------------------------------------------------------------------------
(* Values exchanged with the collaborators.                                *)

\* an optional dict entry: the key is present or it is not
Entry(k, present, v) == IF present THEN (k :> v) ELSE <<>>

Has(d, k) == k \in DOMAIN d

\* what client.get can come back with: httpx.RequestError raised, or a
\* response with its is_error flag and a body that parses as JSON or not
RaisedResponse == [st |-> "raised", is_error |-> FALSE, is_json |-> FALSE, body |-> <<>>]
NoResponse == [st |-> "none", is_error |-> FALSE, is_json |-> FALSE, body |-> <<>>]
Responses(bodies) ==
    {RaisedResponse}
    \cup {[st |-> "resp", is_error |-> e, is_json |-> FALSE, body |-> <<>>] : e \in BOOLEAN}
    \cup {[st |-> "resp", is_error |-> e, is_json |-> TRUE, body |-> b] :
            e \in BOOLEAN, b \in bodies}

\* LNURL-pay metadata bodies (any key may be missing, bounds in any order)
PayMetas ==
    {Entry("tag", ht, t) @@ Entry("minSendable", hmin, mn)
        @@ Entry("maxSendable", hmax, mx) @@ Entry("callback", hcb, S_callback) :
        ht \in BOOLEAN, t \in {"payRequest", "channelRequest"},
        hmin \in BOOLEAN, mn \in Sendables,
        hmax \in BOOLEAN, mx \in Sendables, hcb \in BOOLEAN}

\* LNURL-pay callback bodies
PayCallbacks == {Entry("pr", hpr, "lnbc1") : hpr \in BOOLEAN}

\* LNURL-withdraw metadata bodies
WithdrawMetas ==
    {Entry("tag", ht, t) @@ Entry("callback", hcb, S_callback) @@ Entry("k1", hk, "k1") :
        ht \in BOOLEAN, t \in {"withdrawRequest", "payRequest"},
        hcb \in BOOLEAN, hk \in BOOLEAN}

\* LNURL-withdraw callback bodies
WithdrawCallbacks ==
    {Entry("status", hs, s) @@ Entry("reason", hr, "no funds") :
        hs \in BOOLEAN, s \in {"OK", "ERROR"}, hr \in BOOLEAN}

\* a handler's outcome: a returned body or a raised error
NoResult ==
    [kind |-> "none", status |-> 0, success |-> "none", detail |-> "",
     payload |-> <<>>, exc |-> ""]
Ret(success, detail) ==
    [kind |-> "return", status |-> OK, success |-> success, detail |-> detail,
     payload |-> <<>>, exc |-> ""]
RetWith(success, detail, payload) ==
    [kind |-> "return", status |-> OK, success |-> success, detail |-> detail,
     payload |-> payload, exc |-> ""]
Raise(status, exc, detail) ==
    [kind |-> "raise", status |-> status, success |-> "none", detail |-> detail,
     payload |-> <<>>, exc |-> exc]

\* one call made to a collaborator, as the request's log records it
Call(fn, url, params) == [fn |-> fn, url |-> url, params |-> params]

----------------------------------------------------------------------------
(* The terminal store (crud.py).                                           *)

Tpos(id, wallet, atm) == [id |-> id, wallet |-> wallet, atm |-> atm]

\* get_tpos: the record, or None
get_tpos(st, tpos_id) == IF tpos_id \in DOMAIN st THEN <<st[tpos_id]>> ELSE <<>>

create_tpos(st, id, wallet_id, atm) ==
    [x \in DOMAIN st \cup {id} |-> IF x = id THEN Tpos(id, wallet_id, atm) ELSE st[x]]

update_tpos(st, tpos_id, atm) ==
    [x \in DOMAIN st |-> IF x = tpos_id THEN [st[x] EXCEPT !.atm = atm] ELSE st[x]]

delete_tpos(st, tpos_id) == [x \in DOMAIN st \ {tpos_id} |-> st[x]]

----------------------------------------------------------------------------
(* A request slot: the handler's parameters, locals and position.          *)

Idle ==
    [op |-> "idle", pc |-> "idle", tpos_id |-> "", wallet |-> "", data_atm |-> AtmNone,
     amount_in |-> 0, amount |-> 0, tipAmount |-> 0,
     payLink |-> <<>>, payment_request |-> "",
     lnurl_in |-> <<>>, stripped |-> <<>>, lnurl |-> <<>>,
     tpos |-> <<>>, r |-> NoResponse, r2 |-> NoResponse, collab_raised |-> FALSE,
     client |-> "none", calls |-> <<>>, result |-> NoResult]

\* mutant: the client is closed by hand before a return, not by async with,
\* so a raised error leaves it open
End_Leak(q, res) ==
    [q EXCEPT !.pc = "done", !.result = res,
              !.client = IF q.client = "open" /\ res.kind = "return"
                         THEN "closed" ELSE q.client]

\* the handler ends with result res; leaving the async-with block closes the client
End(q, res) ==
    [q EXCEPT !.pc = "done", !.result = res,
              !.client = IF q.client = "open" THEN "closed" ELSE q.client]

NotFound == Raise(NOT_FOUND, "HTTPException", "TPoS does not exist.")
Forbidden == Raise(FORBIDDEN, "HTTPException", "Not your TPoS.")
\* an exception nothing catches: the framework answers 500
Unhandled(exc) == Raise(INTERNAL_SERVER_ERROR, exc, "Internal Server Error")
\* mutant: the outer except reports a result, as the withdraw flow does
Wrapped_Swallow(exc) == Ret("false", "Unexpected error occurred")

\* except Exception as e: raise HTTPException(500, detail=str(e))
Wrapped(exc) == Raise(INTERNAL_SERVER_ERROR, "HTTPException", exc)

Init ==
    /\ store = <<>>
    /\ req = [r \in Slots |-> Idle]

\* a fresh slot record for handler op
Begin(op, tpos_id) == [Idle EXCEPT !.op = op, !.tpos_id = tpos_id]

----------------------------------------------------------------------------
(* POST /api/v1/tposs : api_tpos_create                                    *)

api_tpos_create(r) ==
    /\ req[r].op = "idle"
    /\ \E id \in StoreIds \ DOMAIN store, wallet \in Wallets, atm \in AtmValues :
          /\ store' = create_tpos(store, id, wallet, atm)
          /\ req' = [req EXCEPT ![r] =
                End([Begin("create", id) EXCEPT
                        !.wallet = wallet, !.data_atm = atm,
                        !.calls = <<Call("create_tpos", <<>>, <<>>)>>],
                    Ret("none", ""))]

----------------------------------------------------------------------------
(* POST /api/v1/tposs/{tpos_id}/atm : api_tpos_make_atm                    *)

\* mutant: the None case of the flag is forgotten
AtmAllowed_ZeroOnly(tpos) == ~(tpos.atm = 0)

\* line 125: the ATM flag gates the flow
AtmAllowed(tpos) == ~(tpos.atm = 0 \/ tpos.atm = AtmNone)

\* mutant: the upper bound is never checked
ValidatePayMeta_SkipHigh(resp, amount) ==
    IF ~Has(resp, "tag") THEN "KeyError"
    ELSE IF resp["tag"] # "payRequest" THEN "Wrong tag type"
    ELSE IF ~Has(resp, "minSendable") THEN "KeyError"
    ELSE IF amount < resp["minSendable"] THEN "Amount too low"
    ELSE IF ~Has(resp, "callback") THEN "KeyError"
    ELSE "ok"

\* mutant: the lower bound itself is rejected (<= for <)
ValidatePayMeta_Inclusive(resp, amount) ==
    IF ~Has(resp, "tag") THEN "KeyError"
    ELSE IF resp["tag"] # "payRequest" THEN "Wrong tag type"
    ELSE IF ~Has(resp, "minSendable") THEN "KeyError"
    ELSE IF amount <= resp["minSendable"] THEN "Amount too low"
    ELSE IF ~Has(resp, "maxSendable") THEN "KeyError"
    ELSE IF amount > resp["maxSendable"] THEN "Amount too high"
    ELSE IF ~Has(resp, "callback") THEN "KeyError"
    ELSE "ok"

\* mutant: the range is checked before the tag
ValidatePayMeta_RangeFirst(resp, amount) ==
    IF ~Has(resp, "minSendable") THEN "KeyError"
    ELSE IF amount < resp["minSendable"] THEN "Amount too low"
    ELSE IF ~Has(resp, "maxSendable") THEN "KeyError"
    ELSE IF amount > resp["maxSendable"] THEN "Amount too high"
    ELSE IF ~Has(resp, "tag") THEN "KeyError"
    ELSE IF resp["tag"] # "payRequest" THEN "Wrong tag type"
    ELSE IF ~Has(resp, "callback") THEN "KeyError"
    ELSE "ok"

\* lines 142-151: the checks on the pay metadata, in the code's order;
\* "KeyError" when a key the code reads is missing, "ok" when all pass
ValidatePayMeta(resp, amount) ==
    IF ~Has(resp, "tag") THEN "KeyError"
    ELSE IF resp["tag"] # "payRequest" THEN "Wrong tag type"
    ELSE IF ~Has(resp, "minSendable") THEN "KeyError"
    ELSE IF amount < resp["minSendable"] THEN "Amount too low"
    ELSE IF ~Has(resp, "maxSendable") THEN "KeyError"
    ELSE IF amount > resp["maxSendable"] THEN "Amount too high"
    ELSE IF ~Has(resp, "callback") THEN "KeyError"
    ELSE "ok"

\* lines 119-133: up to the metadata GET
make_atm_begin(q) ==
    IF q.tpos = <<>> THEN End(q, NotFound)
    ELSE IF ~AtmAllowed(q.tpos[1])
         THEN End(q, Ret("false", "ATM mode not allowed"))
    ELSE LET link == Replace(q.payLink, S_lnurlp, S_https)
         IN  [q EXCEPT !.payLink = link, !.client = "open", !.pc = "meta_get",
                       !.calls = Append(@, Call("get", link, <<>>))]

\* mutant: a metadata GET that failed to connect is issued again
make_atm_on_meta_Retry(q, r) ==
    LET q1 == [q EXCEPT !.r = r]
    IN  IF r.st = "raised"
        THEN [q1 EXCEPT !.calls = Append(@, Call("get", q.payLink, <<>>))]
        ELSE IF r.is_error THEN End(q1, Ret("false", "Error loading"))
        ELSE IF ~r.is_json THEN End(q1, Wrapped("JSONDecodeError"))
        ELSE LET amount == q.amount * MsatPerSat
                 q2 == [q1 EXCEPT !.amount = amount]
                 v == ValidatePayMeta(r.body, amount)
             IN  IF v = "KeyError" THEN End(q2, Wrapped("KeyError"))
                 ELSE IF v # "ok" THEN End(q2, Ret("false", v))
                 ELSE [q2 EXCEPT !.pc = "cb_get",
                                 !.calls = Append(@, Call("get", r.body["callback"],
                                                          ("amount" :> amount)))]

\* lines 133-151: the metadata response arrives
make_atm_on_meta(q, r) ==
    LET q1 == [q EXCEPT !.r = r]
    IN  IF r.st = "raised" THEN End(q1, Wrapped("RequestError"))
        ELSE IF r.is_error THEN End(q1, Ret("false", "Error loading"))
        ELSE IF ~r.is_json THEN End(q1, Wrapped("JSONDecodeError"))
        ELSE LET amount == q.amount * MsatPerSat
                 q2 == [q1 EXCEPT !.amount = amount]
                 v == ValidatePayMeta(r.body, amount)
             IN  IF v = "KeyError" THEN End(q2, Wrapped("KeyError"))
                 ELSE IF v # "ok" THEN End(q2, Ret("false", v))
                 ELSE [q2 EXCEPT !.pc = "cb_get",
                                 !.calls = Append(@, Call("get", r.body["callback"],
                                                          ("amount" :> amount)))]

\* mutant: the is_error test on the callback response is missing
make_atm_on_callback_NoErrorTest(q, r2) ==
    LET q1 == [q EXCEPT !.r2 = r2]
    IN  IF r2.st = "raised" THEN End(q1, Wrapped("RequestError"))
        ELSE IF ~r2.is_json THEN End(q1, Wrapped("JSONDecodeError"))
        ELSE IF ~Has(r2.body, "pr") THEN End(q1, Ret("false", "Payment failed - 'pr'"))
        ELSE [q1 EXCEPT !.pc = "pay",
                        !.calls = Append(@, Call("pay_invoice", <<>>,
                            ("wallet_id" :> q.tpos[1].wallet)
                            @@ ("payment_request" :> r2.body["pr"])
                            @@ ("tag" :> "tpos_atm") @@ ("tpos" :> q.tpos[1].id)))]

\* lines 151-163: the callback response arrives
make_atm_on_callback(q, r2) ==
    LET q1 == [q EXCEPT !.r2 = r2]
    IN  IF r2.st = "raised" THEN End(q1, Wrapped("RequestError"))
        ELSE IF ~r2.is_json THEN End(q1, Wrapped("JSONDecodeError"))
        ELSE IF r2.is_error THEN End(q1, Ret("false", "Error loading callback"))
        ELSE IF ~Has(r2.body, "pr") THEN End(q1, Ret("false", "Payment failed - 'pr'"))
        ELSE [q1 EXCEPT !.pc = "pay",
                        !.calls = Append(@, Call("pay_invoice", <<>>,
                            ("wallet_id" :> q.tpos[1].wallet)
                            @@ ("payment_request" :> r2.body["pr"])
                            @@ ("tag" :> "tpos_atm") @@ ("tpos" :> q.tpos[1].id)))]

\* mutant: the inner except of line 165 is missing, the outer one answers
make_atm_on_pay_Raise(q, paid) ==
    LET q1 == [q EXCEPT !.collab_raised = ~paid]
    IN  IF paid
        THEN End(q1, RetWith("true", "Payment successful", ("payment_hash" :> "hash")))
        ELSE End(q1, Wrapped("Insufficient balance."))

\* lines 158-166: pay_invoice returns a hash or raises
make_atm_on_pay(q, paid) ==
    LET q1 == [q EXCEPT !.collab_raised = ~paid]
    IN  IF paid
        THEN End(q1, RetWith("true", "Payment successful", ("payment_hash" :> "hash")))
        ELSE End(q1, Ret("false", "Payment failed - Insufficient balance."))

api_tpos_make_atm(r) ==
    /\ req[r].op = "idle"
    /\ \E tpos_id \in ReqIds, amount \in Amounts, payLink \in PayLinks :
          req' = [req EXCEPT ![r] =
                    make_atm_begin([Begin("make_atm", tpos_id) EXCEPT
                        !.amount_in = amount, !.amount = amount,
                        !.payLink = payLink, !.tpos = get_tpos(store, tpos_id)])]
    /\ UNCHANGED store

make_atm_metadata(r) ==
    /\ req[r].op = "make_atm" /\ req[r].pc = "meta_get"
    /\ \E resp \in Responses(PayMetas) :
          req' = [req EXCEPT ![r] = make_atm_on_meta(@, resp)]
    /\ UNCHANGED store

make_atm_callback(r) ==
    /\ req[r].op = "make_atm" /\ req[r].pc = "cb_get"
    /\ \E resp \in Responses(PayCallbacks) :
          req' = [req EXCEPT ![r] = make_atm_on_callback(@, resp)]
    /\ UNCHANGED store

make_atm_pay(r) ==
    /\ req[r].op = "make_atm" /\ req[r].pc = "pay"
    /\ \E paid \in BOOLEAN :
          req' = [req EXCEPT ![r] = make_atm_on_pay(@, paid)]
    /\ UNCHANGED store

----------------------------------------------------------------------------
(* PUT /api/v1/tposs/{tpos_id} : api_tpos_update                           *)

\* mutant: the ownership check is missing
NotOwner_Missing(wallet, tpos) == FALSE

\* lines 59 and 76: the credential's wallet is not the terminal's wallet
NotOwner(wallet, tpos) == wallet # tpos.wallet

\* lines 52-60: up to the call of update_tpos
update_begin(q) ==
    IF q.tpos_id = "" THEN End(q, NotFound)
    ELSE LET q1 == [q EXCEPT !.tpos = get_tpos(store, q.tpos_id)]
         IN  IF q1.tpos = <<>> THEN End(q1, Unhandled("AssertionError"))
             ELSE IF NotOwner(q.wallet, q1.tpos[1]) THEN End(q1, Forbidden)
             ELSE [q1 EXCEPT !.pc = "update_tpos"]

api_tpos_update(r) ==
    /\ req[r].op = "idle"
    /\ \E tpos_id \in ReqIds, wallet \in Wallets, atm \in AtmValues :
          req' = [req EXCEPT ![r] =
                    update_begin([Begin("update", tpos_id) EXCEPT
                        !.wallet = wallet, !.data_atm = atm])]
    /\ UNCHANGED store

\* lines 61-62: update_tpos writes the record and reads it back
update_write(r) ==
    /\ req[r].op = "update" /\ req[r].pc = "update_tpos"
    /\ store' = update_tpos(store, req[r].tpos_id, req[r].data_atm)
    /\ LET q == [req[r] EXCEPT !.calls = Append(@, Call("update_tpos", <<>>, <<>>)),
                               !.tpos = get_tpos(store', req[r].tpos_id)]
       IN  req' = [req EXCEPT ![r] =
                IF q.tpos = <<>> THEN End(q, Unhandled("AssertionError"))
                ELSE End(q, Ret("none", ""))]

----------------------------------------------------------------------------
(* DELETE /api/v1/tposs/{tpos_id} : api_tpos_delete                        *)

\* lines 69-77: up to the call of delete_tpos
delete_begin(q) ==
    IF q.tpos = <<>> THEN End(q, NotFound)
    ELSE IF NotOwner(q.wallet, q.tpos[1]) THEN End(q, Forbidden)
    ELSE [q EXCEPT !.pc = "delete_tpos"]

api_tpos_delete(r) ==
    /\ req[r].op = "idle"
    /\ \E tpos_id \in ReqIds, wallet \in Wallets :
          req' = [req EXCEPT ![r] =
                    delete_begin([Begin("delete", tpos_id) EXCEPT
                        !.wallet = wallet, !.tpos = get_tpos(store, tpos_id)])]
    /\ UNCHANGED store

\* lines 79-80
delete_write(r) ==
    /\ req[r].op = "delete" /\ req[r].pc = "delete_tpos"
    /\ store' = delete_tpos(store, req[r].tpos_id)
    /\ req' = [req EXCEPT ![r] =
            End([@ EXCEPT !.calls = Append(@, Call("delete_tpos", <<>>, <<>>))],
                Ret("none", ""))]

----------------------------------------------------------------------------
(* POST /api/v1/tposs/{tpos_id}/invoices : api_tpos_create_invoice         *)

\* lines 94-95: the amount the invoice is created for
InvoiceAmount(amount, tipAmount) == IF tipAmount > 0 THEN amount + tipAmount ELSE amount

\* line 106: extra["amount"], an integer or the sentinel False
ExtraAmount(amount, tipAmount) ==
    Entry("extra_amount", tipAmount # 0, amount - tipAmount)
    @@ ("extra_amount_is_False" :> (tipAmount = 0))

\* lines 87-108: up to the call of create_invoice
create_invoice_begin(q) ==
    IF q.tpos = <<>> THEN End(q, NotFound)
    ELSE LET amount == InvoiceAmount(q.amount, q.tipAmount)
         IN  [q EXCEPT !.amount = amount, !.pc = "create_invoice",
                       !.calls = Append(@, Call("create_invoice", <<>>,
                            ("wallet_id" :> q.tpos[1].wallet) @@ ("amount" :> amount)
                            @@ ("tag" :> "tpos") @@ ("tipAmount" :> q.tipAmount)
                            @@ ("tposId" :> q.tpos_id)
                            @@ ExtraAmount(amount, q.tipAmount)))]

api_tpos_create_invoice(r) ==
    /\ req[r].op = "idle"
    /\ \E tpos_id \in ReqIds, amount \in Amounts, tipAmount \in TipAmounts :
          req' = [req EXCEPT ![r] =
                    create_invoice_begin([Begin("create_invoice", tpos_id) EXCEPT
                        !.amount_in = amount, !.amount = amount,
                        !.tipAmount = tipAmount, !.tpos = get_tpos(store, tpos_id)])]
    /\ UNCHANGED store

\* lines 97-112: create_invoice returns or raises
create_invoice_result(r) ==
    /\ req[r].op = "create_invoice" /\ req[r].pc = "create_invoice"
    /\ \E created \in BOOLEAN :
          req' = [req EXCEPT ![r] =
                    IF created
                    THEN End(@, RetWith("none", "",
                            ("payment_hash" :> "hash") @@ ("payment_request" :> "lnbc1")))
                    ELSE End([@ EXCEPT !.collab_raised = TRUE],
                             Wrapped("create_invoice failed"))]
    /\ UNCHANGED store

----------------------------------------------------------------------------
(* GET /api/v1/tposs/{tpos_id}/invoices/{payment_hash} :                   *)
(* api_tpos_check_invoice                                                  *)

\* lines 261-265
check_invoice_begin(q) ==
    IF q.tpos = <<>> THEN End(q, NotFound)
    ELSE [q EXCEPT !.pc = "api_payment",
                   !.calls = Append(@, Call("api_payment", <<>>, <<>>))]

\* mutant: the exception of api_payment is not caught
check_invoice_on_status_Reraise(q, raised, paid) ==
    LET q1 == [q EXCEPT !.collab_raised = raised]
    IN  IF raised THEN End(q1, Unhandled("Exception"))
        ELSE End(q1, RetWith("none", "", ("paid" :> paid)))

\* lines 266-272: api_payment returns the status or raises
check_invoice_on_status(q, raised, paid) ==
    LET q1 == [q EXCEPT !.collab_raised = raised]
    IN  IF raised THEN End(q1, RetWith("none", "", ("paid" :> FALSE)))
        ELSE End(q1, RetWith("none", "", ("paid" :> paid)))

api_tpos_check_invoice(r) ==
    /\ req[r].op = "idle"
    /\ \E tpos_id \in ReqIds :
          req' = [req EXCEPT ![r] =
                    check_invoice_begin([Begin("check_invoice", tpos_id) EXCEPT
                        !.tpos = get_tpos(store, tpos_id)])]
    /\ UNCHANGED store

check_invoice_status(r) ==
    /\ req[r].op = "check_invoice" /\ req[r].pc = "api_payment"
    /\ \E raised \in BOOLEAN, paid \in BOOLEAN :
          req' = [req EXCEPT ![r] = check_invoice_on_status(@, raised, paid)]
    /\ UNCHANGED store

----------------------------------------------------------------------------
(* POST /api/v1/tposs/{tpos_id}/invoices/{payment_request}/pay :           *)
(* api_tpos_pay_invoice                                                    *)

\* lines 208-214: the chain of str.replace calls
StripPrefixes(s) ==
    Replace(Replace(Replace(Replace(Replace(s,
        S_lnurlw, <<>>), S_lightning_ss, <<>>), S_LIGHTNING_ss, <<>>),
        S_lightning, <<>>), S_LIGHTNING, <<>>)

\* lnurl.decode: the URL a well-formed bech32 string carries (<<url>>), or
\* <<>> when the string does not decode and the library raises
decode_lnurl(s) ==
    IF s \in {S_bech, S_BECH} THEN <<S_https \o S_host>> ELSE <<>>

\* mutant: the lnurl test forgets lower()
ResolveLnurl_CaseSensitive(lnurl) ==
    IF StartsWith(lnurl, S_lnurl)
    THEN decode_lnurl(lnurl)
    ELSE <<S_https \o lnurl>>

\* lines 216-219: <<url>>, or <<>> when decode_lnurl raised
ResolveLnurl(lnurl) ==
    IF StartsWith(Lower(lnurl), S_lnurl)
    THEN decode_lnurl(lnurl)
    ELSE <<S_https \o lnurl>>

\* lines 201-224: up to the metadata GET
pay_invoice_begin(q) ==
    IF q.tpos = <<>> THEN End(q, NotFound)
    ELSE LET stripped == StripPrefixes(q.lnurl_in)
             url == ResolveLnurl(stripped)
             q1 == [q EXCEPT !.stripped = stripped]
         IN  IF url = <<>> THEN End(q1, Unhandled("DecodeError"))
             ELSE [q1 EXCEPT !.lnurl = url[1], !.client = "open", !.pc = "meta_get",
                             !.calls = Append(@, Call("get", url[1], <<>>))]

\* lines 224-240: the metadata response arrives
pay_invoice_on_meta(q, r) ==
    LET q1 == [q EXCEPT !.r = r]
        resp == r.body
    IN  IF r.st = "raised" THEN End(q1, Ret("false", "Unexpected error occurred"))
        ELSE IF r.is_error THEN End(q1, Ret("false", "Error loading"))
        ELSE IF ~r.is_json THEN End(q1, Unhandled("JSONDecodeError"))
        ELSE IF ~Has(resp, "tag") THEN End(q1, Unhandled("KeyError"))
        ELSE IF resp["tag"] # "withdrawRequest"
             THEN End(q1, Ret("false", "Wrong tag type"))
        ELSE IF ~Has(resp, "callback") \/ ~Has(resp, "k1")
             THEN End(q1, Unhandled("KeyError"))
        ELSE [q1 EXCEPT !.pc = "cb_get",
                        !.calls = Append(@, Call("get", resp["callback"],
                            ("k1" :> resp["k1"]) @@ ("pr" :> q.payment_request)))]

\* mutant: the comparison with "ERROR" is inverted
WithdrawOutcome_Inverted(resp2) ==
    IF ~Has(resp2, "status") THEN Unhandled("KeyError")
    ELSE IF resp2["status"] # "ERROR"
         THEN IF ~Has(resp2, "reason") THEN Unhandled("KeyError")
              ELSE Ret("false", resp2["reason"])
    ELSE RetWith("true", "", resp2)

\* lines 247-250: the result the callback body is translated to
WithdrawOutcome(resp2) ==
    IF ~Has(resp2, "status") THEN Unhandled("KeyError")
    ELSE IF resp2["status"] = "ERROR"
         THEN IF ~Has(resp2, "reason") THEN Unhandled("KeyError")
              ELSE Ret("false", resp2["reason"])
    ELSE RetWith("true", "", resp2)

\* mutant: the except clause of line 251 is missing
pay_invoice_on_callback_Propagate(q, r2) ==
    LET q1 == [q EXCEPT !.r2 = r2]
    IN  IF r2.st = "raised" THEN End(q1, Unhandled("RequestError"))
        ELSE IF ~r2.is_json THEN End(q1, Unhandled("JSONDecodeError"))
        ELSE IF r2.is_error THEN End(q1, Ret("false", "Error loading callback"))
        ELSE End(q1, WithdrawOutcome(r2.body))

\* lines 241-254: the callback response arrives
pay_invoice_on_callback(q, r2) ==
    LET q1 == [q EXCEPT !.r2 = r2]
    IN  IF r2.st = "raised" THEN End(q1, Ret("false", "Unexpected error occurred"))
        ELSE IF ~r2.is_json THEN End(q1, Unhandled("JSONDecodeError"))
        ELSE IF r2.is_error THEN End(q1, Ret("false", "Error loading callback"))
        ELSE End(q1, WithdrawOutcome(r2.body))

api_tpos_pay_invoice(r) ==
    /\ req[r].op = "idle"
    /\ \E tpos_id \in ReqIds, lnurl \in LnurlInputs :
          req' = [req EXCEPT ![r] =
                    pay_invoice_begin([Begin("pay_invoice", tpos_id) EXCEPT
                        !.lnurl_in = lnurl, !.payment_request = "lnbc1",
                        !.tpos = get_tpos(store, tpos_id)])]
    /\ UNCHANGED store

pay_invoice_metadata(r) ==
    /\ req[r].op = "pay_invoice" /\ req[r].pc = "meta_get"
    /\ \E resp \in Responses(WithdrawMetas) :
          req' = [req EXCEPT ![r] = pay_invoice_on_meta(@, resp)]
    /\ UNCHANGED store

pay_invoice_callback(r) ==
    /\ req[r].op = "pay_invoice" /\ req[r].pc = "cb_get"
    /\ \E resp \in Responses(WithdrawCallbacks) :
          req' = [req EXCEPT ![r] = pay_invoice_on_callback(@, resp)]
    /\ UNCHANGED store

----------------------------------------------------------------------------
(* The response is sent and the slot is free again.                        *)

Respond(r) ==
    /\ req[r].pc = "done"
    /\ req' = [req EXCEPT ![r] = Idle]
    /\ UNCHANGED store

Next ==
    \E r \in SeqSlots :
        \/ api_tpos_create(r)
        \/ api_tpos_make_atm(r)
        \/ make_atm_metadata(r)
        \/ make_atm_callback(r)
        \/ make_atm_pay(r)
        \/ api_tpos_update(r)
        \/ update_write(r)
        \/ api_tpos_delete(r)
        \/ delete_write(r)
        \/ api_tpos_create_invoice(r)
        \/ create_invoice_result(r)
        \/ api_tpos_check_invoice(r)
        \/ check_invoice_status(r)
        \/ api_tpos_pay_invoice(r)
        \/ pay_invoice_metadata(r)
        \/ pay_invoice_callback(r)
        \/ Respond(r)

Spec == Init /\ [][Next]_vars

\* Requests served concurrently: a terminal user's ATM request in one slot
\* and an admin's create / update / delete request in the other, their
\* steps interleaved at the await points.
FlowSlots == {1}
AdminSlots == {2}

NextConc ==
    \/ \E r \in FlowSlots :
            \/ api_tpos_make_atm(r)
            \/ make_atm_metadata(r)
            \/ make_atm_callback(r)
            \/ make_atm_pay(r)
            \/ Respond(r)
    \/ \E r \in AdminSlots :
            \/ api_tpos_create(r)
            \/ api_tpos_update(r)
            \/ update_write(r)
            \/ api_tpos_delete(r)
            \/ delete_write(r)
            \/ Respond(r)

SpecConc == Init /\ [][NextConc]_vars

----------------------------------------------------------------------------
(* Vocabulary of the properties.                                           *)

\* the metadata GET came back as a non-error response with a JSON body
MetaReceived(q) == q.r.st = "resp" /\ ~q.r.is_error /\ q.r.is_json
\* the callback GET came back as a non-error response
CallbackReceived(q) == q.r2.st = "resp" /\ ~q.r2.is_error

CallsTo(q, fn) == {i \in DOMAIN q.calls : q.calls[i].fn = fn}
\* the request has made no call but its metadata GET
OnlyMetadataGet(q) == Len(q.calls) = 1 /\ q.calls[1].fn = "get" /\ q.calls[1].params = <<>>

\* an ATM request whose metadata carries the tag payRequest
AtmPayRequest(q) ==
    /\ q.op = "make_atm" /\ MetaReceived(q)
    /\ Has(q.r.body, "tag") /\ q.r.body["tag"] = "payRequest"

\* the metadata carries every key the flow reads
WellFormedPayMeta(q) ==
    {"tag", "minSendable", "maxSendable", "callback"} \subseteq DOMAIN q.r.body

TooLow(q) == Has(q.r.body, "minSendable") /\ q.amount_in * MsatPerSat < q.r.body["minSendable"]
TooHigh(q) == Has(q.r.body, "maxSendable") /\ q.amount_in * MsatPerSat > q.r.body["maxSendable"]
InRange(q) ==
    /\ Has(q.r.body, "minSendable") /\ q.r.body["minSendable"] <= q.amount_in * MsatPerSat
    /\ Has(q.r.body, "maxSendable") /\ q.amount_in * MsatPerSat <= q.r.body["maxSendable"]

RangeDetails == {"Amount too low", "Amount too high"}
\* the results of lines 164 and 166: the try block of pay_invoice was entered
PayStepDetails ==
    {"Payment successful", "Payment failed - 'pr'", "Payment failed - Insufficient balance."}
ReachedPayStep(q) == q.pc = "pay" \/ (q.pc = "done" /\ q.result.detail \in PayStepDetails)

----------------------------------------------------------------------------
(* C1 *)

\* C1 (as stated): in api_tpos_make_atm, with metadata tagged payRequest, an
\* amount with a*1000 < minSendable returns "Amount too low" and an amount
\* with a*1000 > maxSendable returns "Amount too high"; in both cases the
\* request makes no callback GET and no pay_invoice call.
C1_AsStated ==
    \A r \in Slots : LET q == req[r] IN
        (AtmPayRequest(q) /\ WellFormedPayMeta(q)) =>
            /\ TooLow(q) =>
                  /\ q.pc = "done" /\ q.result = Ret("false", "Amount too low")
                  /\ OnlyMetadataGet(q)
            /\ TooHigh(q) =>
                  /\ q.pc = "done" /\ q.result = Ret("false", "Amount too high")
                  /\ OnlyMetadataGet(q)

\* C1 (amended): an amount with a*1000 < minSendable returns "Amount too
\* low"; an amount with a*1000 > maxSendable returns "Amount too high" when
\* minSendable is present and a*1000 >= minSendable (the lower bound is
\* checked first); in both cases the request makes no callback GET and no
\* pay_invoice call.
C1_RangeViolation ==
    \A r \in Slots : LET q == req[r] IN
        AtmPayRequest(q) =>
            /\ TooLow(q) =>
                  /\ q.pc = "done" /\ q.result = Ret("false", "Amount too low")
                  /\ OnlyMetadataGet(q)
            /\ (TooHigh(q) /\ Has(q.r.body, "minSendable") /\ ~TooLow(q)) =>
                  /\ q.pc = "done" /\ q.result = Ret("false", "Amount too high")
                  /\ OnlyMetadataGet(q)

\* an ATM request above maxSendable and not below minSendable was answered
C1_Witness ==
    \E r \in Slots : LET q == req[r] IN
        /\ AtmPayRequest(q) /\ TooHigh(q) /\ Has(q.r.body, "minSendable") /\ ~TooLow(q)
        /\ q.result.detail = "Amount too high"

----------------------------------------------------------------------------
(* C2 *)

\* C2 (as stated): in api_tpos_make_atm, with metadata tagged payRequest and
\* minSendable <= a*1000 <= maxSendable, the flow never returns a range
\* message, issues the callback GET with amount = a*1000 and reaches the
\* pay_invoice step.
C2_AsStated ==
    \A r \in Slots : LET q == req[r] IN
        (AtmPayRequest(q) /\ WellFormedPayMeta(q) /\ InRange(q)) =>
            /\ q.result.detail \notin RangeDetails
            /\ Len(q.calls) >= 2 /\ q.calls[2].fn = "get"
            /\ q.calls[2].params = ("amount" :> q.amount_in * MsatPerSat)
            /\ q.pc = "done" => ReachedPayStep(q)

\* C2 (amended): with metadata tagged payRequest, carrying a callback URL,
\* and minSendable <= a*1000 <= maxSendable, the flow never returns a range
\* message and issues the callback GET to that URL with amount = a*1000; it
\* reaches the pay_invoice step when the callback GET comes back as a
\* non-error response with a JSON body, and calls pay_invoice when that
\* body carries pr.
C2_InRange ==
    \A r \in Slots : LET q == req[r] IN
        (AtmPayRequest(q) /\ InRange(q)) =>
            /\ q.result.detail \notin RangeDetails
            /\ Has(q.r.body, "callback") =>
                  /\ Len(q.calls) >= 2
                  /\ q.calls[2] = Call("get", q.r.body["callback"],
                                       ("amount" :> q.amount_in * MsatPerSat))
                  /\ (CallbackReceived(q) /\ q.r2.is_json) =>
                        /\ ReachedPayStep(q)
                        /\ Has(q.r2.body, "pr") => CallsTo(q, "pay_invoice") = {3}

\* an in-range ATM request went through the callback GET and called pay_invoice
C2_Witness ==
    \E r \in Slots : LET q == req[r] IN
        /\ AtmPayRequest(q) /\ InRange(q)
        /\ q.amount_in * MsatPerSat = q.r.body["minSendable"]
        /\ CallsTo(q, "pay_invoice") = {3}

----------------------------------------------------------------------------
(* C3 *)

\* C3: in api_tpos_make_atm, metadata with a tag other than payRequest
\* returns {success:false, detail:"Wrong tag type"} whatever the amount and
\* the bounds are, and the request makes no call after the metadata GET.
C3_WrongTag ==
    \A r \in Slots : LET q == req[r] IN
        (q.op = "make_atm" /\ MetaReceived(q)
            /\ Has(q.r.body, "tag") /\ q.r.body["tag"] # "payRequest") =>
            /\ q.pc = "done" /\ q.result = Ret("false", "Wrong tag type")
            /\ OnlyMetadataGet(q)

\* a wrongly tagged metadata whose bounds the amount also violates
C3_Witness ==
    \E r \in Slots : LET q == req[r] IN
        /\ q.op = "make_atm" /\ MetaReceived(q)
        /\ Has(q.r.body, "tag") /\ q.r.body["tag"] = "channelRequest"
        /\ TooLow(q)
        /\ q.result.detail = "Wrong tag type"

----------------------------------------------------------------------------
(* C4 *)

\* C4: api_tpos_make_atm on an existing terminal whose atm flag is 0 or
\* None returns {success:false, detail:"ATM mode not allowed"} and makes no
\* HTTP GET and no pay_invoice call; a 404 is raised only for a terminal id
\* that does not resolve.
C4_AtmNotAllowed ==
    \A r \in Slots : LET q == req[r] IN
        q.op = "make_atm" =>
            /\ (q.tpos # <<>> /\ q.tpos[1].atm \in {0, AtmNone}) =>
                  /\ q.pc = "done" /\ q.result = Ret("false", "ATM mode not allowed")
                  /\ q.calls = <<>>
            /\ q.result.status = NOT_FOUND => q.tpos = <<>>

\* a terminal without the atm flag was refused
C4_Witness ==
    \E r \in Slots : LET q == req[r] IN
        /\ q.op = "make_atm" /\ q.tpos # <<>> /\ q.tpos[1].atm = AtmNone
        /\ q.result.detail = "ATM mode not allowed"

----------------------------------------------------------------------------
(* C5 *)

\* a withdraw request whose metadata was tagged withdrawRequest and whose
\* callback GET came back as a non-error response with a JSON body
WithdrawCallbackReceived(q) ==
    /\ q.op = "pay_invoice" /\ MetaReceived(q)
    /\ Has(q.r.body, "tag") /\ q.r.body["tag"] = "withdrawRequest"
    /\ CallbackReceived(q) /\ q.r2.is_json

----------------------------------------------------------------------------
(* C6 *)

\* C6: api_tpos_update and api_tpos_delete called with an admin credential
\* whose wallet differs from the wallet of the existing terminal they
\* address end in Forbidden (403) whatever the payload is, never call
\* update_tpos / delete_tpos, and leave the terminal record as it was.
C6_NotOwnerForbidden ==
    \A r \in Slots : LET q == req[r] IN
        (q.op \in {"update", "delete"} /\ q.tpos # <<>> /\ q.wallet # q.tpos[1].wallet) =>
            /\ q.pc = "done" /\ q.result = Forbidden
            /\ q.calls = <<>>
            /\ get_tpos(store, q.tpos_id) = q.tpos

\* an update that would have changed the atm flag was refused
C6_Witness ==
    \E r \in Slots : LET q == req[r] IN
        /\ q.op = "update" /\ q.tpos # <<>> /\ q.wallet # q.tpos[1].wallet
        /\ q.data_atm # q.tpos[1].atm
        /\ q.result.status = FORBIDDEN

----------------------------------------------------------------------------
(* C7 *)

\* C7 (as stated): api_tpos_check_invoice never raises to the caller, for
\* every terminal id and payment hash: it always returns a normal response.
C7_AsStated ==
    \A r \in Slots : LET q == req[r] IN
        (q.op = "check_invoice" /\ q.pc = "done") => q.result.kind = "return"

\* C7 (amended): for a terminal id that get_tpos resolves,
\* api_tpos_check_invoice never raises to the caller: a failure of
\* api_payment is returned as {paid:false}, otherwise the status is
\* returned; a terminal id that does not resolve is raised as 404.
C7_CheckInvoice ==
    \A r \in Slots : LET q == req[r] IN
        (q.op = "check_invoice" /\ q.pc = "done") =>
            /\ q.tpos # <<>> =>
                  /\ q.result.kind = "return" /\ Has(q.result.payload, "paid")
                  /\ q.collab_raised => q.result.payload = ("paid" :> FALSE)
            /\ q.tpos = <<>> => q.result = NotFound

\* a failure of api_payment was answered with {paid:false}
C7_Witness ==
    \E r \in Slots : LET q == req[r] IN
        /\ q.op = "check_invoice" /\ q.pc = "done" /\ q.collab_raised
        /\ q.result.payload = ("paid" :> FALSE)

----------------------------------------------------------------------------
(* C8 *)

\* the literal old occurs in s
RECURSIVE Contains(_, _)
Contains(s, old) ==
    IF Len(s) < Len(old) THEN FALSE
    ELSE StartsWith(s, old) \/ Contains(Tail(s), old)

PrefixLiterals == {S_lnurlw, S_lightning_ss, S_LIGHTNING_ss, S_lightning, S_LIGHTNING}
NoPrefixIn(s) == \A lit \in PrefixLiterals : ~Contains(s, lit)

\* C8: the resolution step of api_tpos_pay_invoice is idempotent on inputs
\* already in https:// form: for an input that begins with https:// and
\* contains no scheme prefix to strip, the resolved URL (the target of the
\* metadata GET) equals the input, and resolving it again gives it again.
C8_HttpsIdempotent ==
    \A r \in Slots : LET q == req[r] IN
        (q.op = "pay_invoice" /\ q.tpos # <<>>
            /\ StartsWith(q.lnurl_in, S_https) /\ NoPrefixIn(q.lnurl_in)) =>
            /\ q.lnurl = q.lnurl_in
            /\ q.calls # <<>> /\ q.calls[1].url = q.lnurl_in
            /\ ResolveLnurl(StripPrefixes(q.lnurl)) = <<q.lnurl>>

----------------------------------------------------------------------------
(* C9 *)

\* s with the first occurrence of old replaced, the others kept
RECURSIVE ReplaceFirst(_, _, _)
ReplaceFirst(s, old, new) ==
    IF Len(s) < Len(old) THEN s
    ELSE IF SubSeq(s, 1, Len(old)) = old
         THEN new \o SubSeq(s, Len(old) + 1, Len(s))
         ELSE <<Head(s)>> \o ReplaceFirst(Tail(s), old, new)

\* each scheme prefix removed once, in the order of the code
StripEachOnce(s) ==
    ReplaceFirst(ReplaceFirst(ReplaceFirst(ReplaceFirst(ReplaceFirst(s,
        S_lnurlw, <<>>), S_lightning_ss, <<>>), S_LIGHTNING_ss, <<>>),
        S_lightning, <<>>), S_LIGHTNING, <<>>)

\* C9: prefix stripping in api_tpos_pay_invoice removes lnurlw://,
\* lightning://, LIGHTNING://, lightning:, LIGHTNING: in that order, at most
\* one occurrence of each: a further occurrence stays in the result.
C9_StripAtMostOnce ==
    \A r \in Slots : LET q == req[r] IN
        (q.op = "pay_invoice" /\ q.tpos # <<>>) => q.stripped = StripEachOnce(q.lnurl_in)

----------------------------------------------------------------------------
(* C10 *)

ByIdOps == {"update", "delete", "create_invoice", "make_atm", "pay_invoice", "check_invoice"}

\* C10: every operation that addresses a terminal by id answers an id that
\* does not resolve to a terminal record with NotFound (404), before any
\* store mutation, HTTP GET or gateway call.
C10_UnresolvedIsNotFound ==
    \A r \in Slots : LET q == req[r] IN
        (q.op \in ByIdOps /\ q.pc = "done" /\ q.tpos = <<>>) =>
            /\ q.result = NotFound
            /\ q.calls = <<>>

----------------------------------------------------------------------------
(* C11 *)

\* C11: api_tpos_create_invoice, for every base amount >= 1 and every
\* integer tipAmount it accepts, calls create_invoice with amount = base +
\* tipAmount when tipAmount > 0 and amount = base otherwise, and with the
\* extra tag amount equal to the base amount when there is a tip and the
\* sentinel False when there is none.
C11_InvoiceAmounts ==
    \A r \in Slots : LET q == req[r] IN
        (q.op = "create_invoice" /\ q.calls # <<>>) =>
            LET sent == q.calls[1].params IN
            /\ q.calls[1].fn = "create_invoice"
            /\ sent["amount"] = IF q.tipAmount > 0 THEN q.amount_in + q.tipAmount
                                ELSE q.amount_in
            /\ q.tipAmount > 0 =>
                  /\ ~sent["extra_amount_is_False"]
                  /\ Has(sent, "extra_amount") /\ sent["extra_amount"] = q.amount_in
            /\ q.tipAmount <= 0 =>
                  /\ sent["extra_amount_is_False"] /\ ~Has(sent, "extra_amount")
            /\ Has(sent, "extra_amount") => sent["extra_amount"] = q.amount_in

----------------------------------------------------------------------------
(* C12 *)

\* the callback GET came back as an HTTP error response, whatever its body
CallbackHttpError(q) == q.r2.st = "resp" /\ q.r2.is_error

\* C12: in api_tpos_make_atm and api_tpos_pay_invoice, a callback GET that
\* comes back as an HTTP error response yields {success:false,
\* detail:"Error loading callback"} whatever the body of that response is
\* (a body that is not JSON included); the flow does not raise and does not
\* go on to pay_invoice or to the status test.
C12_CallbackHttpError ==
    \A r \in Slots : LET q == req[r] IN
        (q.op \in {"make_atm", "pay_invoice"} /\ CallbackHttpError(q)) =>
            /\ q.pc = "done"
            /\ q.result = Ret("false", "Error loading callback")
            /\ CallsTo(q, "pay_invoice") = {}

----------------------------------------------------------------------------
(* C13 *)

\* C13: in api_tpos_pay_invoice, a connection-level failure of the metadata
\* GET or of the callback GET is caught at the flow boundary: the request
\* returns {success:false, detail:"Unexpected error occurred"} and raises
\* nothing to the caller.
C13_ConnectionFailureCaught ==
    \A r \in Slots : LET q == req[r] IN
        (q.op = "pay_invoice" /\ (q.r.st = "raised" \/ q.r2.st = "raised")) =>
            /\ q.pc = "done"
            /\ q.result = Ret("false", "Unexpected error occurred")

\* the callback GET of a withdraw request failed at the connection level
C13_Witness ==
    \E r \in Slots : LET q == req[r] IN
        /\ q.op = "pay_invoice" /\ MetaReceived(q) /\ q.r2.st = "raised"
        /\ Len(q.calls) = 2
        /\ q.result.detail = "Unexpected error occurred"

----------------------------------------------------------------------------
(* C14 *)

\* C14: in api_tpos_make_atm, once the callback GET succeeded, the outcome
\* of the gateway is reported and never raised: when pay_invoice succeeds
\* the result is {success:true, detail:"Payment successful", payment_hash},
\* when it fails the result is {success:false, detail:"Payment failed -
\* <reason>"}.
C14_PaymentReported ==
    \A r \in Slots : LET q == req[r] IN
        (q.op = "make_atm" /\ CallbackReceived(q) /\ q.r2.is_json /\ q.pc = "done") =>
            /\ q.result.kind = "return"
            /\ CallsTo(q, "pay_invoice") # {} =>
                  IF q.collab_raised
                  THEN q.result = Ret("false", "Payment failed - Insufficient balance.")
                  ELSE q.result = RetWith("true", "Payment successful",
                                          ("payment_hash" :> "hash"))

\* pay_invoice was called and failed
C14_Witness ==
    \E r \in Slots : LET q == req[r] IN
        /\ q.op = "make_atm" /\ q.pc = "done" /\ CallsTo(q, "pay_invoice") = {3}
        /\ q.collab_raised /\ q.result.success = "false"

----------------------------------------------------------------------------
(* C15 *)

\* this step of request r invokes pay_invoice (tagged tpos_atm)
PayInvoked(r) ==
    /\ req[r].op = "make_atm" /\ req[r].pc = "cb_get"
    /\ req'[r].pc = "pay"

\* the terminal is in the store with its atm flag set
StoredAtmEnabled(tpos_id) ==
    /\ tpos_id \in DOMAIN store
    /\ store[tpos_id].atm \notin {0, AtmNone}

\* C15: under every interleaving of api_tpos_make_atm with api_tpos_update
\* and api_tpos_delete on the same terminal, pay_invoice tagged tpos_atm is
\* never invoked for a terminal whose stored atm flag is 0 or None, or which
\* has been deleted, at the moment the payment is made.
C15_AtmGateAtPayment ==
    [][\A r \in Slots : PayInvoked(r) => StoredAtmEnabled(req[r].tpos_id)]_vars

----------------------------------------------------------------------------
(* C16 *)

LnurlFlows == {"make_atm", "pay_invoice"}

\* C16: an LNURL flow (api_tpos_make_atm, api_tpos_pay_invoice) that opened
\* an HTTP client has released it when the request ends, on every exit path
\* (success, validation failure, pay_invoice failure, exception raised
\* inside the flow): no request ends with its client still open.
C16_ClientReleased ==
    \A r \in Slots : LET q == req[r] IN
        (q.op \in LnurlFlows /\ q.pc = "done") =>
            /\ q.client # "open"
            /\ q.calls # <<>> => q.client = "closed"

\* a flow that ended with a raised error after it had opened its client
C16_Witness ==
    \E r \in Slots : LET q == req[r] IN
        /\ q.op \in LnurlFlows /\ q.pc = "done" /\ q.calls # <<>>
        /\ q.result.kind = "raise" /\ q.client = "closed"

----------------------------------------------------------------------------
(* C17 *)

\* the URL the metadata GET of the flow targets
MetadataUrl(q) == IF q.op = "make_atm" THEN q.payLink ELSE q.lnurl

\* C17: within one api_tpos_make_atm or api_tpos_pay_invoice request the
\* metadata GET is issued at most once, the callback GET at most once and
\* only after the metadata GET, and (ATM only) pay_invoice at most once and
\* only after the callback GET; after a failure of one of these calls the
\* request ends without issuing it again.
C17_NoRetry ==
    \A r \in Slots : LET q == req[r] c == q.calls IN
        q.op \in LnurlFlows =>
            /\ Len(c) <= IF q.op = "make_atm" THEN 3 ELSE 2
            /\ Len(c) >= 1 => c[1] = Call("get", MetadataUrl(q), <<>>)
            /\ Len(c) >= 2 =>
                  /\ MetaReceived(q)
                  /\ c[2].fn = "get" /\ c[2].url = q.r.body["callback"]
            /\ Len(c) >= 3 =>
                  /\ CallbackReceived(q) /\ c[3].fn = "pay_invoice"
            /\ (q.r.st = "raised" \/ q.r.is_error) => (q.pc = "done" /\ Len(c) = 1)
            /\ (q.r2.st = "raised" \/ q.r2.is_error) => (q.pc = "done" /\ Len(c) = 2)
            /\ q.collab_raised => (q.pc = "done" /\ Len(c) = 3)

\* an ATM request made its three calls, the last of which failed
C17_Witness ==
    \E r \in Slots : LET q == req[r] IN
        /\ q.op = "make_atm" /\ q.pc = "done" /\ Len(q.calls) = 3
        /\ q.collab_raised

----------------------------------------------------------------------------
(* C18 *)

\* the exception an ATM request met outside the handled branches: "" when
\* there was none, else its text
AtmException(q) ==
    LET resp == q.r.body
        msat == q.amount_in * MsatPerSat
    IN  IF q.r.st = "raised" THEN "RequestError"
        ELSE IF q.r.st = "resp" /\ ~q.r.is_error /\ ~q.r.is_json THEN "JSONDecodeError"
        ELSE IF ~MetaReceived(q) THEN ""
        ELSE IF ~Has(resp, "tag") THEN "KeyError"
        ELSE IF resp["tag"] # "payRequest" THEN ""
        ELSE IF ~Has(resp, "minSendable") THEN "KeyError"
        ELSE IF msat < resp["minSendable"] THEN ""
        ELSE IF ~Has(resp, "maxSendable") THEN "KeyError"
        ELSE IF msat > resp["maxSendable"] THEN ""
        ELSE IF ~Has(resp, "callback") THEN "KeyError"
        ELSE IF q.r2.st = "raised" THEN "RequestError"
        ELSE IF q.r2.st = "resp" /\ ~q.r2.is_json THEN "JSONDecodeError"
        ELSE ""

\* C18: in api_tpos_make_atm an exception raised outside the handled
\* branches (a connection failure of either GET, a body that is not JSON, a
\* missing tag / minSendable / maxSendable / callback key) fails the whole
\* request with HTTP 500 carrying the exception text, never a
\* {success:false} result, and pay_invoice is not called in that request.
C18_AtmExceptionIs500 ==
    \A r \in Slots : LET q == req[r] IN
        (q.op = "make_atm" /\ AtmException(q) # "") =>
            /\ q.pc = "done"
            /\ q.result = Raise(INTERNAL_SERVER_ERROR, "HTTPException", AtmException(q))
            /\ CallsTo(q, "pay_invoice") = {}

\* an in-range ATM request whose metadata lacks the callback key
C18_Witness ==
    \E r \in Slots : LET q == req[r] IN
        /\ AtmPayRequest(q) /\ InRange(q) /\ ~Has(q.r.body, "callback")
        /\ q.result.status = INTERNAL_SERVER_ERROR

----------------------------------------------------------------------------
(* C19 *)

\* the stripped string is taken for a bech32 LNURL
LooksLikeBech32(q) == StartsWith(Lower(q.stripped), S_lnurl)

\* C19: in api_tpos_pay_invoice, when the stripped string starts with lnurl
\* in any letter case it is bech32-decoded before the metadata GET, which
\* targets the decoded URL; when decoding fails the request ends with the
\* decode error and issues no metadata GET and no callback GET.
C19_DecodeBeforeGet ==
    \A r \in Slots : LET q == req[r] IN
        (q.op = "pay_invoice" /\ q.tpos # <<>> /\ LooksLikeBech32(q)) =>
            IF decode_lnurl(q.stripped) = <<>>
            THEN /\ q.pc = "done" /\ q.result = Unhandled("DecodeError")
                 /\ q.calls = <<>>
            ELSE /\ q.calls # <<>>
                 /\ q.calls[1] = Call("get", decode_lnurl(q.stripped)[1], <<>>)

\* "LIGHTNING:LNURL1..." was stripped, decoded and fetched
C19_Witness ==
    \E r \in Slots : LET q == req[r] IN
        /\ q.op = "pay_invoice" /\ q.lnurl_in = S_LIGHTNING \o S_BECH
        /\ q.stripped = S_BECH
        /\ q.calls # <<>> /\ q.calls[1].url = S_https \o S_host

----------------------------------------------------------------------------
(* C20 *)

\* C20: pay_invoice is called only by an api_tpos_make_atm request whose
\* terminal resolved with ATM enabled, whose metadata GET was no HTTP error,
\* whose tag was payRequest, whose amount*1000 lay within [minSendable,
\* maxSendable] and whose callback GET was no HTTP error; the withdraw flow
\* api_tpos_pay_invoice never calls pay_invoice or create_invoice.
C20_PayOnlyAfterValidation ==
    \A r \in Slots : LET q == req[r] IN
        /\ CallsTo(q, "pay_invoice") # {} =>
              /\ q.op = "make_atm"
              /\ q.tpos # <<>> /\ q.tpos[1].atm \notin {0, AtmNone}
              /\ AtmPayRequest(q) /\ InRange(q)
              /\ CallbackReceived(q)
        /\ q.op = "pay_invoice" =>
              CallsTo(q, "pay_invoice") \cup CallsTo(q, "create_invoice") = {}

\* a payment was made by a validated ATM request
C20_Witness ==
    \E r \in Slots : LET q == req[r] IN
        /\ q.op = "make_atm" /\ CallsTo(q, "pay_invoice") = {3}
        /\ q.result.detail = "Payment successful"

====
